---- MODULE Spec2Model ----
(***************************************************************************)
(* Model of the Gatekeeper API (src/app/main.py): the authentication       *)
(* verdict computed from a raw header block, the create_ticket handler     *)
(* that stores a ticket, calls the analyzer and saves the outcome, and the *)
(* get_ticket and list_tickets handlers, all of them working through the   *)
(* module-level sqlite connection and cursor.                              *)
(*                                                                         *)
(* Text is modelled as a sequence of one-character strings, so that        *)
(* splitlines, lower, startswith and the regular expression _RESULT_RE are *)
(* computed character by character as the code computes them.              *)
(*                                                                         *)
(* The handlers are sync functions, which FastAPI runs on a thread pool:   *)
(* requests interleave between the statements that use conn and cur.  The  *)
(* steps of a request that touch only its locals (lines 153-173) are one   *)
(* action.                                                                 *)
(***************************************************************************)
EXTENDS Integers, Sequences, FiniteSets, TLC

VARIABLES
    tickets,          \* the tickets table as seen through conn: id -> row
    now,              \* the next reading time.time() gives
    committed,        \* the tickets table as of the last conn.commit()
    lastrowid,        \* cur.lastrowid of the shared module-level cursor
    writes,           \* per request: the statements it executed, with the row id of each
    reply,            \* per request: what its analyzer call ended in
    pc,               \* per request: position in its handler
    received,         \* per request: the JSON body it came with
    t,                \* per request: the validated TicketIn body
    ticket_id,        \* per request: local ticket_id
    analysis,         \* per request: local analysis
    analyzer_call_ok, \* per request: local analyzer_call_ok
    verdict,          \* per request: local verdict
    status,           \* per request: local status
    response,         \* per request: the response returned
    cur_rows,         \* the rows the shared cursor's last SELECT has yet to hand out
    snapshot,         \* per request: the table as it was when its SELECT ran
    raw_headers,      \* argument of a direct auth_verdict_from_headers call
    returned,         \* what that call returned
    found_in,         \* argument mapping of a direct overall derivation
    derived,          \* what that derivation returned
    urls_in,          \* a url list submitted for a direct store and read back
    urls_out          \* what reading the stored urls column gave

vars == <<tickets, now, committed, lastrowid, writes, reply, pc, received, t, ticket_id, analysis,
          analyzer_call_ok, verdict, status, response, cur_rows, snapshot,
          raw_headers, returned, found_in, derived, urls_in, urls_out>>

pureVars == <<raw_headers, returned, found_in, derived, urls_in, urls_out>>

handlerVars == <<tickets, now, committed, lastrowid, writes, reply, pc, received, t, ticket_id,
                 analysis, analyzer_call_ok, verdict, status, response, cur_rows, snapshot>>

-----------------------------------------------------------------------------
(* Characters and Python's str methods                                     *)

Lowers == <<"a","b","c","d","e","f","g","h","i","j","k","l","m",
            "n","o","p","q","r","s","t","u","v","w","x","y","z">>

Uppers == <<"A","B","C","D","E","F","G","H","I","J","K","L","M",
            "N","O","P","Q","R","S","T","U","V","W","X","Y","Z">>

Digits == {"0","1","2","3","4","5","6","7","8","9"}

UpperSet == {Uppers[i] : i \in 1..26}

LetterSet == UpperSet \cup {Lowers[i] : i \in 1..26}

\* the lower-case letter of each upper-case letter
LowerOf == [c \in UpperSet |-> Lowers[CHOOSE i \in 1..26 : Uppers[i] = c]]

IsLetter(c) == c \in LetterSet

\* \w of the re module
IsWordChar(c) == IsLetter(c) \/ c \in Digits \/ c = "_"

\* \s of the re module
IsSpace(c) == c \in {" ", "\t", "\n", "\r", "\f"}

LowerChar(c) == IF c \in UpperSet THEN LowerOf[c] ELSE c

\* str.lower()
lower(s) == [i \in 1..Len(s) |-> LowerChar(s[i])]

\* str.startswith(prefix)
startswith(s, prefix) ==
    /\ Len(s) >= Len(prefix)
    /\ SubSeq(s, 1, Len(prefix)) = prefix

\* the least element of a nonempty set of integers
Least(S) == CHOOSE x \in S : \A y \in S : x <= y

\* the lines of s from index start on; "\r\n" is one line break
RECURSIVE SplitFrom(_, _)
SplitFrom(s, start) ==
    IF start > Len(s) THEN <<>>
    ELSE LET breaks == {i \in start..Len(s) : s[i] \in {"\n", "\r", "\f"}}
         IN IF breaks = {} THEN <<SubSeq(s, start, Len(s))>>
            ELSE LET i == Least(breaks)
                     next == IF s[i] = "\r" /\ i + 1 <= Len(s) /\ s[i + 1] = "\n"
                             THEN i + 2 ELSE i + 1
                 IN <<SubSeq(s, start, i - 1)>> \o SplitFrom(s, next)

\* str.splitlines(): no empty last line after a final line break
splitlines(s) == SplitFrom(s, 1)

-----------------------------------------------------------------------------
(* _RESULT_RE = \b(spf|dkim|dmarc)\s*=\s*([a-zA-Z]+), re.IGNORECASE        *)

SPF == <<"s","p","f">>
DKIM == <<"d","k","i","m">>
DMARC == <<"d","m","a","r","c">>

Mechanisms == <<SPF, DKIM, DMARC>>

\* \s* from i: the index of the first character that is no white space
SkipSpaces(l, i) ==
    LET stop == {j \in i..Len(l) : ~IsSpace(l[j])}
    IN IF stop = {} THEN Len(l) + 1 ELSE Least(stop)

\* [a-zA-Z]* from i: the index of the first character that is no letter
SkipLetters(l, i) ==
    LET stop == {j \in i..Len(l) : ~IsLetter(l[j])}
    IN IF stop = {} THEN Len(l) + 1 ELSE Least(stop)

\* the alternative of (spf|dkim|dmarc) that matches at i, ignoring case; 0 if none
MechanismAt(l, i) ==
    LET hits == {n \in 1..3 :
                    /\ i + Len(Mechanisms[n]) - 1 <= Len(l)
                    /\ \A k \in 1..Len(Mechanisms[n]) :
                          LowerChar(l[i + k - 1]) = Mechanisms[n][k]}
    IN IF hits = {} THEN 0 ELSE Least(hits)

\* one match attempt of _RESULT_RE anchored at i:
\* [ok, g1, g2, end] with end the index after the match
MatchAt(l, i) ==
    LET n == MechanismAt(l, i)
        boundary == i = 1 \/ ~IsWordChar(l[i - 1])
        afterName == i + (IF n = 0 THEN 0 ELSE Len(Mechanisms[n]))
        eq == SkipSpaces(l, afterName)
        valStart == SkipSpaces(l, eq + 1)
        valEnd == SkipLetters(l, valStart)
        ok == /\ n # 0
              /\ boundary
              /\ eq <= Len(l)
              /\ l[eq] = "="
              /\ valEnd > valStart
    IN IF ok
       THEN [ok |-> TRUE, g1 |-> SubSeq(l, i, afterName - 1),
             g2 |-> SubSeq(l, valStart, valEnd - 1), end |-> valEnd]
       ELSE [ok |-> FALSE, g1 |-> <<>>, g2 |-> <<>>, end |-> i]

\* _RESULT_RE.finditer(l): the non-overlapping matches from left to right,
\* each the leftmost match at or after the end of the one before
RECURSIVE FindIterFrom(_, _)
FindIterFrom(l, i) ==
    LET starts == {j \in i..Len(l) : MatchAt(l, j).ok}
    IN IF starts = {} THEN <<>>
       ELSE LET m == MatchAt(l, Least(starts))
            IN <<m>> \o FindIterFrom(l, m.end)

finditer(l) == FindIterFrom(l, 1)

-----------------------------------------------------------------------------
(* auth_verdict_from_headers                                               *)

\* Python's None: no match of _RESULT_RE yields an empty group 2
None == <<>>

\* the literal "pass" (GOOD_VALUE) as text
GOOD_VALUE == <<"p","a","s","s">>

AUTH_RESULTS == <<"a","u","t","h","e","n","t","i","c","a","t","i","o","n","-","r","e","s","u","l","t","s">>

AUTH_RESULTS_ORIGINAL == <<"a","u","t","h","e","n","t","i","c","a","t","i","o","n","-","r","e","s","u","l","t","s","-","o","r","i","g","i","n","a","l">>

\* CollectLines with a fault: every line kept, whatever it starts with
CollectLinesKeepsAll(ls) == ls

\* CollectLines with a fault: the prefix test without lower()
RECURSIVE CollectLinesCaseSensitive(_)
CollectLinesCaseSensitive(ls) ==
    IF ls = <<>> THEN <<>>
    ELSE IF startswith(Head(ls), AUTH_RESULTS)
         THEN <<Head(ls)>> \o CollectLinesCaseSensitive(Tail(ls))
         ELSE CollectLinesCaseSensitive(Tail(ls))

\* lines 59-64: the lines kept for scanning, in document order
RECURSIVE CollectLines(_)
CollectLines(ls) ==
    IF ls = <<>> THEN <<>>
    ELSE LET line == Head(ls)
         IN IF startswith(lower(line), AUTH_RESULTS)
            THEN <<line>> \o CollectLines(Tail(ls))
            ELSE IF startswith(lower(line), AUTH_RESULTS_ORIGINAL)
                 THEN <<line>> \o CollectLines(Tail(ls))
                 ELSE CollectLines(Tail(ls))

\* setdefault with a fault: found[k] = v, the last value stored under k stays
setdefaultOverwrites(found, k, v) ==
    [x \in DOMAIN found \cup {k} |-> IF x = k THEN v ELSE found[x]]

\* dict.setdefault(k, v): the first value stored under k stays
setdefault(found, k, v) ==
    IF k \in DOMAIN found THEN found
    ELSE [x \in DOMAIN found \cup {k} |-> IF x = k THEN v ELSE found[x]]

\* dict.get(k): None when k is no key
get(found, k) == IF k \in DOMAIN found THEN found[k] ELSE None

\* StoreMatches with a fault: the value stored as written, without lower()
RECURSIVE StoreMatchesKeepCase(_, _)
StoreMatchesKeepCase(found, ms) ==
    IF ms = <<>> THEN found
    ELSE StoreMatchesKeepCase(setdefault(found, lower(Head(ms).g1), Head(ms).g2),
                              Tail(ms))

\* lines 68-72 for one line: every match stored with setdefault, left to right
RECURSIVE StoreMatches(_, _)
StoreMatches(found, ms) ==
    IF ms = <<>> THEN found
    ELSE StoreMatches(setdefault(found, lower(Head(ms).g1), lower(Head(ms).g2)),
                      Tail(ms))

\* lines 66-72: the scan of all kept lines
RECURSIVE ScanLines(_, _)
ScanLines(found, ls) ==
    IF ls = <<>> THEN found
    ELSE ScanLines(StoreMatches(found, finditer(Head(ls))), Tail(ls))

EmptyDict == [x \in {} |-> None]

\* DeriveOverall with a fault: pass as soon as every value present is pass
DeriveOverallLenient(spf, dkim, dmarc) ==
    LET present == SelectSeq(<<spf, dkim, dmarc>>, LAMBDA x : x # None)
    IN IF present = <<>>
       THEN "unknown"
       ELSE IF \E i \in 1..Len(present) : present[i] # GOOD_VALUE
            THEN "fail"
            ELSE "pass"

\* lines 78-88: overall from the three values, None for a missing one
DeriveOverall(spf, dkim, dmarc) ==
    LET present == SelectSeq(<<spf, dkim, dmarc>>, LAMBDA x : x # None)
    IN IF present = <<>>
       THEN "unknown"
       ELSE IF \E i \in 1..Len(present) : present[i] # GOOD_VALUE
            THEN "fail"
            ELSE IF spf = dkim /\ dkim = dmarc /\ dmarc = GOOD_VALUE
                 THEN "pass"
                 ELSE "fail"

\* lines 74-90: the verdict object built from the dict found
VerdictOf(found) ==
    LET spf == get(found, SPF)
        dkim == get(found, DKIM)
        dmarc == get(found, DMARC)
    IN [spf |-> spf, dkim |-> dkim, dmarc |-> dmarc,
        overall |-> DeriveOverall(spf, dkim, dmarc)]

auth_verdict_from_headers(raw) ==
    VerdictOf(ScanLines(EmptyDict, CollectLines(splitlines(raw))))

-----------------------------------------------------------------------------
(* Header texts given to auth_verdict_from_headers                         *)

\* the most fragments a generated header text is made of
MaxFragments == 4

UpperOf == [c \in LetterSet \ UpperSet |-> Uppers[CHOOSE i \in 1..26 : Lowers[i] = c]]

UpperChar(c) == IF c \in LetterSet \ UpperSet THEN UpperOf[c] ELSE c

upper(s) == [i \in 1..Len(s) |-> UpperChar(s[i])]

FAIL_VALUE == <<"f","a","i","l">>

\* how a text is written: lower case and a bare "=", or upper case and
\* white space around "=" (with the -original header name)
Styles == {"plain", "loud"}

Cased(s, style) == IF style = "loud" THEN upper(s) ELSE s

Separator(style) == IF style = "loud" THEN <<" ","\t","="," ">> ELSE <<"=">>

\* mechanism=value followed by "; "
ResultToken(mech, val, style) ==
    Cased(mech, style) \o Separator(style) \o Cased(val, style) \o <<";", " ">>

\* a line break and the start of an Authentication-Results header line
AuthLineStart(style) ==
    <<"\n">> \o (IF style = "loud"
                 THEN upper(AUTH_RESULTS_ORIGINAL)
                 ELSE <<"A","u","t","h","e","n","t","i","c","a","t","i","o","n","-","R","e","s","u","l","t","s">>) \o <<":", " ">>

\* a line break and the start of another header line
OtherLineStart == <<"\n">> \o <<"R","e","c","e","i","v","e","d",":"," ">>

FragmentKinds ==
    {<<"auth">>, <<"other">>}
    \cup {<<"token", n, v>> : n \in 1..3, v \in {GOOD_VALUE, FAIL_VALUE}}

Fragment(kind, style) ==
    IF kind[1] = "auth" THEN AuthLineStart(style)
    ELSE IF kind[1] = "other" THEN OtherLineStart
    ELSE ResultToken(Mechanisms[kind[2]], kind[3], style)

RECURSIVE Concat(_, _)
Concat(kinds, style) ==
    IF kinds = <<>> THEN <<>>
    ELSE Fragment(Head(kinds), style) \o Concat(Tail(kinds), style)

FragmentLists ==
    UNION {[1..n -> FragmentKinds] : n \in 0..MaxFragments}

HeaderTexts == {Concat(ks, style) : ks \in FragmentLists, style \in Styles}

\* the values a mechanism can carry in a dict handed to the derivation
ResultTokens == {GOOD_VALUE, FAIL_VALUE, <<"s","o","f","t","f","a","i","l">>, <<"n","o","n","e">>}

FoundDicts ==
    UNION {[ks -> ResultTokens] : ks \in SUBSET {SPF, DKIM, DMARC}}

-----------------------------------------------------------------------------
(* create_ticket: the requests, the shared connection and cursor           *)

\* the number of POST /tickets requests served, possibly at the same time
NumRequests == 2

Requests == 1..NumRequests

\* header blocks as send_sample_ticket.py builds them: the full triplet, and
\* a failing mechanism beside a passing one
PassHeaders ==
    Concat(<< <<"auth">>, <<"token", 1, GOOD_VALUE>>, <<"token", 2, GOOD_VALUE>>,
              <<"token", 3, GOOD_VALUE>> >>, "plain")

FailHeaders ==
    Concat(<< <<"auth">>, <<"token", 1, FAIL_VALUE>>, <<"token", 2, GOOD_VALUE>> >>,
           "plain")

\* header blocks the verdict is tabulated for: the full triplet, a failing
\* mechanism beside a passing one, and the empty text
SampleHeaders == {PassHeaders, FailHeaders, <<>>}

\* what the analyzer call can end in: a body with a success status, or an
\* exception (timeout, connection failure, raise_for_status) with its str();
\* every exception takes the same except branch
AnalyzerOutcomes ==
    { [ok |-> TRUE, text |-> <<"<","p",">">>],
      [ok |-> FALSE, text |-> <<"t","i","m","e","o","u","t">>] }

\* a Python dict as its items in insertion order
DictKeys(d) == {d[i][1] : i \in 1..Len(d)}

\* d[k] = v: replaces the value of an existing key, else appends the item
DictSet(d, k, v) ==
    IF k \in DictKeys(d)
    THEN [i \in 1..Len(d) |-> IF d[i][1] = k THEN <<k, v>> ELSE d[i]]
    ELSE Append(d, <<k, v>>)

\* json.dumps of a str: the text in double quotes
JsonString(x) == <<"\"">> \o x \o <<"\"">>

JSON_NULL == <<"n","u","l","l">>

\* json.dumps of an Optional[str]
JsonOptional(x) == IF x = None THEN JSON_NULL ELSE JsonString(x)

\* json.dumps of the verdict dict: its members in insertion order
JsonVerdict(v) ==
    << <<"spf", JsonOptional(v.spf)>>, <<"dkim", JsonOptional(v.dkim)>>,
       <<"dmarc", JsonOptional(v.dmarc)>>, <<"overall", <<"\"", v.overall, "\"">>>> >>

\* json.dumps(analysis): the members in insertion order, each value encoded
json_dumps(d) ==
    [i \in 1..Len(d) |->
        IF d[i][1] = "verdict" THEN <<"verdict", JsonVerdict(d[i][2])>>
        ELSE <<d[i][1], JsonString(d[i][2])>>]

\* SQL NULL in a column, and a stored value
NULL == <<>>
Stored(x) == <<x>>

\* local variables hold <<>> until assigned, then <<value>>
Unset == <<>>

\* sep.join(items)
RECURSIVE join(_, _)
join(sep, items) ==
    IF items = <<>> THEN <<>>
    ELSE IF Len(items) = 1 THEN items[1]
    ELSE items[1] \o <<sep>> \o join(sep, Tail(items))

\* s.split(sep) from position i on: one piece more than there are separators
RECURSIVE SplitOn(_, _, _)
SplitOn(s, sep, i) ==
    LET seps == {j \in i..Len(s) : s[j] = sep}
    IN IF seps = {} THEN << SubSeq(s, i, Len(s)) >>
       ELSE << SubSeq(s, i, Least(seps) - 1) >> \o SplitOn(s, sep, Least(seps) + 1)

split(s, sep) == SplitOn(s, sep, 1)

COMMA == ","

\* line 147: ",".join(t.urls or []); an absent list and the empty list are
\* both <<>>
StoreUrls(urls) == join(COMMA, urls)

\* lines 115 and 135: r[5].split(",") if r[5] else []
ReadUrls(column) == IF column # <<>> THEN split(column, COMMA) ELSE <<>>

\* a JSON body as received: each member absent, <<>>, or present, <<value>>
Body(reporter, title, body, urls, headers) ==
    [reporter |-> reporter, title |-> title, body |-> body, urls |-> urls,
     headers |-> headers]

Absent == <<>>

\* EmailStr: one @, something before it, a dotted domain after it
IsEmail(x) ==
    LET ats == {i \in 1..Len(x) : x[i] = "@"}
    IN /\ Cardinality(ats) = 1
       /\ LET at == Least(ats)
              dots == {i \in at + 1..Len(x) : x[i] = "."}
          IN /\ at > 1
             /\ dots # {}
             /\ \A i \in dots : i > at + 1 /\ i < Len(x) /\ i + 1 \notin dots

\* EmailStr gives the address with its domain in lower case
NormalizeEmail(x) ==
    LET at == Least({i \in 1..Len(x) : x[i] = "@"})
    IN SubSeq(x, 1, at) \o lower(SubSeq(x, at + 1, Len(x)))

\* TicketIn with a fault: reporter taken as a plain str
TicketInAnyReporter(raw) ==
    IF \/ raw.reporter = Absent \/ raw.title = Absent \/ raw.body = Absent
       \/ raw.headers = Absent
    THEN Unset
    ELSE Stored([reporter |-> raw.reporter[1],
                 title |-> raw.title[1],
                 body |-> raw.body[1],
                 urls |-> IF raw.urls = Absent THEN <<>> ELSE raw.urls[1],
                 headers |-> raw.headers[1]])

\* TicketIn, lines 31-36: reporter, title, body and headers are required,
\* urls defaults to []; Unset stands for the validation error
TicketIn(raw) ==
    IF \/ raw.reporter = Absent \/ raw.title = Absent \/ raw.body = Absent
       \/ raw.headers = Absent
    THEN Unset
    ELSE IF ~IsEmail(raw.reporter[1]) THEN Unset
    ELSE Stored([reporter |-> NormalizeEmail(raw.reporter[1]),
                 title |-> raw.title[1],
                 body |-> raw.body[1],
                 urls |-> IF raw.urls = Absent THEN <<>> ELSE raw.urls[1],
                 headers |-> raw.headers[1]])

BadReporterBody ==
    Body(Stored(<<"a","b">>), Stored(<<"t">>), Stored(<<"b">>), Absent, Stored(PassHeaders))

NoHeadersBody ==
    Body(Stored(<<"a","@","b",".","c">>), Stored(<<"t">>), Stored(<<"b">>), Absent, Absent)

\* the bodies the clients post: the passing header block twice, under
\* different reporters, titles, bodies and urls, the failing one, and two
\* malformed bodies
SampleBodies ==
    { Body(Stored(<<"a","@","b",".","c">>), Stored(<<"t">>), Stored(<<"b">>), Absent,
           Stored(PassHeaders)),
      Body(Stored(<<"d","@","E",".","f">>), Stored(<<"u">>), Stored(<<"c">>),
           Stored(<< <<"x">>, <<"y">> >>), Stored(PassHeaders)),
      Body(Stored(<<"a","@","b",".","c">>), Stored(<<"t">>), Stored(<<"b">>), Absent,
           Stored(FailHeaders)),
      BadReporterBody,
      NoHeadersBody }

NoTicket == [reporter |-> <<>>, title |-> <<>>, body |-> <<>>, urls |-> <<>>,
             headers |-> <<>>]

InitHandlers ==
    /\ tickets = <<>>
    /\ now = 1
    /\ committed = <<>>
    /\ lastrowid = 0
    /\ writes = [r \in Requests |-> <<>>]
    /\ reply = [r \in Requests |-> Unset]
    /\ pc = [r \in Requests |-> "request"]
    /\ received = [r \in Requests |-> Unset]
    /\ t = [r \in Requests |-> NoTicket]
    /\ ticket_id = [r \in Requests |-> 0]
    /\ analysis = [r \in Requests |-> Unset]
    /\ analyzer_call_ok = [r \in Requests |-> TRUE]
    /\ verdict = [r \in Requests |-> Unset]
    /\ status = [r \in Requests |-> ""]
    /\ response = [r \in Requests |-> Unset]
    /\ cur_rows = <<>>
    /\ snapshot = [r \in Requests |-> <<>>]

\* INSERT INTO tickets: AUTOINCREMENT gives the next id; the row is queued
InsertRow(table, time, body) ==
    Append(table, [ts |-> time,
                   reporter |-> body.reporter,
                   title |-> body.title,
                   body |-> body.body,
                   urls |-> StoreUrls(body.urls),
                   headers |-> body.headers,
                   analyzer_status |-> "queued",
                   analyzer_result |-> NULL])

\* UpdateRow with a fault: the outcome written as a new row
UpdateRowAsInsert(table, id, st, res) ==
    Append(table, [ts |-> 0, reporter |-> <<>>, title |-> <<>>, body |-> <<>>,
                   urls |-> <<>>, headers |-> <<>>,
                   analyzer_status |-> st, analyzer_result |-> res])

\* UPDATE tickets SET analyzer_status=?, analyzer_result=? WHERE id=?
UpdateRow(table, id, st, res) ==
    [i \in DOMAIN table |->
        IF i = id
        THEN [table[i] EXCEPT !.analyzer_status = st, !.analyzer_result = res]
        ELSE table[i]]

\* the requests are numbered in the order in which the server takes them up
TakenUpInOrder(r) == \A q \in Requests : q < r => pc[q] # "request"

\* a POST /tickets body fails validation: 422, create_ticket is not entered
Reject(r) ==
    /\ pc[r] = "request"
    /\ TakenUpInOrder(r)
    /\ \E raw \in SampleBodies :
          /\ TicketIn(raw) = Unset
          /\ received' = [received EXCEPT ![r] = Stored(raw)]
    /\ response' = [response EXCEPT ![r] = Stored([status_code |-> 422])]
    /\ pc' = [pc EXCEPT ![r] = "rejected"]
    /\ UNCHANGED <<pureVars, tickets, now, committed, lastrowid, writes, reply, t,
                   ticket_id, analysis, analyzer_call_ok, verdict, status, cur_rows,
                   snapshot>>

\* a POST /tickets body passes validation and create_ticket runs
\* cur.execute(INSERT ...), lines 144-148, with the time.time() of line 147;
\* the cursor drops what an earlier SELECT left on it
Insert(r) ==
    /\ pc[r] = "request"
    /\ TakenUpInOrder(r)
    /\ \E raw \in SampleBodies :
          /\ TicketIn(raw) # Unset
          /\ received' = [received EXCEPT ![r] = Stored(raw)]
          /\ t' = [t EXCEPT ![r] = TicketIn(raw)[1]]
    /\ tickets' = InsertRow(tickets, now, t'[r])
    /\ now' = now + 1
    /\ lastrowid' = Len(tickets')
    /\ writes' = [writes EXCEPT ![r] = Append(@, [op |-> "INSERT", id |-> Len(tickets')])]
    /\ cur_rows' = <<>>
    /\ pc' = [pc EXCEPT ![r] = "commit_insert"]
    /\ UNCHANGED <<pureVars, snapshot, reply, committed, ticket_id, analysis,
                   analyzer_call_ok, verdict, status, response>>

\* conn.commit(), line 149
CommitInsert(r) ==
    /\ pc[r] = "commit_insert"
    /\ committed' = tickets
    /\ pc' = [pc EXCEPT ![r] = "lastrowid"]
    /\ UNCHANGED <<pureVars, received, now, cur_rows, snapshot, reply, tickets,
                   lastrowid, writes, t, ticket_id, analysis, analyzer_call_ok, verdict,
                   status, response>>

\* ticket_id = cur.lastrowid, line 150
ReadLastRowId(r) ==
    /\ pc[r] = "lastrowid"
    /\ ticket_id' = [ticket_id EXCEPT ![r] = lastrowid]
    /\ pc' = [pc EXCEPT ![r] = "analyzer"]
    /\ UNCHANGED <<pureVars, received, now, cur_rows, snapshot, reply, tickets,
                   committed, lastrowid, writes, t, analysis, analyzer_call_ok, verdict,
                   status, response>>

\* lines 153-162: the one analyzer call and what it leaves in the locals
AnalyzerLocals(outcome) ==
    IF outcome.ok
    THEN [analysis |-> Stored(<< <<"html", outcome.text>> >>), ok |-> TRUE]
    ELSE [analysis |-> Stored(<< <<"error", outcome.text>> >>), ok |-> FALSE]

\* DecideStatus with a fault: the failed call forgotten
DecideStatusIgnoresFailure(call_ok, v) == v.overall

\* lines 166-169
DecideStatus(call_ok, v) == IF call_ok THEN v.overall ELSE "analyzer_error"

\* AttachVerdict with a fault: the verdict never merged into the result
AttachVerdictDropped(a, v) == a

\* AttachVerdict with a fault: the verdict merged only into a successful
\* analyzer result
AttachVerdictOnSuccess(a, v) ==
    IF a # Unset /\ "html" \in DictKeys(a[1]) THEN Stored(DictSet(a[1], "verdict", v)) ELSE a

\* lines 172-173
AttachVerdict(a, v) == IF a # Unset THEN Stored(DictSet(a[1], "verdict", v)) ELSE a

\* auth_verdict_from_headers tabulated over the header blocks submitted
SampleVerdicts == [h \in SampleHeaders |-> auth_verdict_from_headers(h)]

\* lines 153-173: the analyzer call, then the verdict, the status and the
\* merged result, all in the request's own locals
Analyze(r) ==
    /\ pc[r] = "analyzer"
    /\ \E outcome \in AnalyzerOutcomes :
          LET called == AnalyzerLocals(outcome)
              v == SampleVerdicts[t[r].headers]
          IN /\ reply' = [reply EXCEPT ![r] = Stored(outcome)]
             /\ analyzer_call_ok' = [analyzer_call_ok EXCEPT ![r] = called.ok]
             /\ verdict' = [verdict EXCEPT ![r] = Stored(v)]
             /\ status' = [status EXCEPT ![r] = DecideStatus(called.ok, v)]
             /\ analysis' = [analysis EXCEPT ![r] = AttachVerdict(called.analysis, v)]
    /\ pc' = [pc EXCEPT ![r] = "update"]
    /\ UNCHANGED <<pureVars, received, now, cur_rows, snapshot, tickets, committed,
                   lastrowid, writes, t, ticket_id, response>>

\* line 178: json.dumps(analysis) if analysis is not None else None
ResultColumn(a) == IF a # Unset THEN Stored(json_dumps(a[1])) ELSE NULL

\* cur.execute(UPDATE ...), lines 176-179; the cursor drops what an earlier
\* SELECT left on it
Update(r) ==
    /\ pc[r] = "update"
    /\ tickets' = UpdateRow(tickets, ticket_id[r], status[r], ResultColumn(analysis[r]))
    /\ writes' = [writes EXCEPT ![r] = Append(@, [op |-> "UPDATE", id |-> ticket_id[r]])]
    /\ cur_rows' = <<>>
    /\ pc' = [pc EXCEPT ![r] = "commit_update"]
    /\ UNCHANGED <<pureVars, received, now, snapshot, reply, committed, lastrowid, t,
                   ticket_id, analysis, analyzer_call_ok, verdict, status, response>>

\* CommitUpdate with a fault: the second conn.commit() left out
CommitUpdateMissing(r) ==
    /\ pc[r] = "commit_update"
    /\ pc' = [pc EXCEPT ![r] = "return"]
    /\ UNCHANGED <<pureVars, received, now, cur_rows, snapshot, reply, tickets,
                   committed, lastrowid, writes, t, ticket_id, analysis,
                   analyzer_call_ok, verdict, status, response>>

\* conn.commit(), line 180
CommitUpdate(r) ==
    /\ pc[r] = "commit_update"
    /\ committed' = tickets
    /\ pc' = [pc EXCEPT ![r] = "return"]
    /\ UNCHANGED <<pureVars, received, now, cur_rows, snapshot, reply, tickets,
                   lastrowid, writes, t, ticket_id, analysis, analyzer_call_ok, verdict,
                   status, response>>

\* return TicketOut(ticket_id=ticket_id, status=status), line 182
TicketOut(id, st) == [ticket_id |-> id, status |-> st]

Return(r) ==
    /\ pc[r] = "return"
    /\ response' = [response EXCEPT ![r] = Stored(TicketOut(ticket_id[r], status[r]))]
    /\ pc' = [pc EXCEPT ![r] = "done"]
    /\ UNCHANGED <<pureVars, received, now, cur_rows, snapshot, reply, tickets,
                   committed, lastrowid, writes, t, ticket_id, analysis,
                   analyzer_call_ok, verdict, status>>

\* the columns of the two SELECTs, as the tuples sqlite hands out
GetColumns(id, row) ==
    <<id, row.ts, row.reporter, row.title, row.body, row.urls, row.headers,
      row.analyzer_status, row.analyzer_result>>

ListColumns(id, row) ==
    <<id, row.ts, row.reporter, row.title, row.body, row.urls, row.analyzer_status>>

\* SELECT ... FROM tickets WHERE id=?, lines 122-125
SelectById(table, id) ==
    IF id \in DOMAIN table THEN << GetColumns(id, table[id]) >> ELSE <<>>

\* SELECT ... FROM tickets ORDER BY id DESC, lines 103-106
SelectAllDesc(table) ==
    [i \in 1..Len(table) |-> ListColumns(Len(table) + 1 - i, table[Len(table) + 1 - i])]

\* json.loads of what json_dumps wrote
JsonUnquote(x) == SubSeq(x, 2, Len(x) - 1)

JsonLoadOptional(x) == IF x = JSON_NULL THEN None ELSE JsonUnquote(x)

JsonLoadVerdict(m) ==
    [spf |-> JsonLoadOptional(m[1][2]), dkim |-> JsonLoadOptional(m[2][2]),
     dmarc |-> JsonLoadOptional(m[3][2]), overall |-> m[4][2][2]]

json_loads(d) ==
    [i \in 1..Len(d) |->
        IF d[i][1] = "verdict" THEN <<"verdict", JsonLoadVerdict(d[i][2])>>
        ELSE <<d[i][1], JsonUnquote(d[i][2])>>]

\* HTTPException(404, "Ticket not found"), and the 500 of an uncaught exception
NotFound == [status_code |-> 404]
ServerError == [status_code |-> 500]

\* lines 127-139 for the tuple fetchone() gave, <<>> for None; Python's r[k]
\* is r[k + 1] here, and r[7] of a shorter tuple raises IndexError
GetResponse(r) ==
    IF r = <<>> THEN NotFound
    ELSE IF Len(r) < 9 THEN ServerError
    ELSE [id |-> r[1], ts |-> r[2], reporter |-> r[3], title |-> r[4], body |-> r[5],
          urls |-> ReadUrls(r[6]), headers |-> r[7], analyzer_status |-> r[8],
          analyzer_result |-> IF r[9] # NULL THEN Stored(json_loads(r[9][1])) ELSE None]

\* lines 108-118 for the tuples fetchall() gave
ListResponse(rows) ==
    [entries |->
        [i \in 1..Len(rows) |->
            [id |-> rows[i][1], ts |-> rows[i][2], reporter |-> rows[i][3],
             title |-> rows[i][4], body |-> rows[i][5], urls |-> ReadUrls(rows[i][6]),
             analyzer_status |-> rows[i][7]]]]

\* the ids a GET /tickets/{ticket_id} asks for: those the table can hold
RequestedIds == 1..NumRequests

\* cur.execute(SELECT ... WHERE id=?), lines 122-125: the rows wait on the
\* shared cursor
GetExecute(r) ==
    /\ pc[r] = "request"
    /\ TakenUpInOrder(r)
    /\ \E id \in RequestedIds : ticket_id' = [ticket_id EXCEPT ![r] = id]
    /\ cur_rows' = SelectById(tickets, ticket_id'[r])
    /\ snapshot' = [snapshot EXCEPT ![r] = tickets]
    /\ pc' = [pc EXCEPT ![r] = "get_fetch"]
    /\ UNCHANGED <<pureVars, received, now, tickets, committed, lastrowid, writes,
                   reply, t, analysis, analyzer_call_ok, verdict, status, response>>

\* r = cur.fetchone() and the rest of get_ticket, lines 126-139: the cursor
\* hands out the first row that waits on it, whichever statement left it
GetFetch(r) ==
    /\ pc[r] = "get_fetch"
    /\ response' = [response EXCEPT ![r] =
                       Stored(GetResponse(IF cur_rows = <<>> THEN <<>> ELSE Head(cur_rows)))]
    /\ cur_rows' = IF cur_rows = <<>> THEN <<>> ELSE Tail(cur_rows)
    /\ pc' = [pc EXCEPT ![r] = "got"]
    /\ UNCHANGED <<pureVars, received, now, snapshot, tickets, committed, lastrowid,
                   writes, reply, t, ticket_id, analysis, analyzer_call_ok, verdict,
                   status>>

get_ticket(r) == GetExecute(r) \/ GetFetch(r)

\* cur.execute(SELECT ... ORDER BY id DESC), lines 103-106
ListExecute(r) ==
    /\ pc[r] = "request"
    /\ TakenUpInOrder(r)
    /\ cur_rows' = SelectAllDesc(tickets)
    /\ snapshot' = [snapshot EXCEPT ![r] = tickets]
    /\ pc' = [pc EXCEPT ![r] = "list_fetch"]
    /\ UNCHANGED <<pureVars, received, now, tickets, committed, lastrowid, writes,
                   reply, t, ticket_id, analysis, analyzer_call_ok, verdict, status,
                   response>>

\* rows = cur.fetchall() and the rest of list_tickets, lines 107-118: the
\* cursor hands out every row that waits on it
ListFetch(r) ==
    /\ pc[r] = "list_fetch"
    /\ response' = [response EXCEPT ![r] = Stored(ListResponse(cur_rows))]
    /\ cur_rows' = <<>>
    /\ pc' = [pc EXCEPT ![r] = "listed"]
    /\ UNCHANGED <<pureVars, received, now, snapshot, tickets, committed, lastrowid,
                   writes, reply, t, ticket_id, analysis, analyzer_call_ok, verdict,
                   status>>

list_tickets(r) == ListExecute(r) \/ ListFetch(r)

create_ticket(r) ==
    \/ Insert(r)
    \/ CommitInsert(r)
    \/ ReadLastRowId(r)
    \/ Analyze(r)
    \/ Update(r)
    \/ CommitUpdate(r)
    \/ Return(r)

InitUrlsIdle ==
    /\ urls_in = <<>>
    /\ urls_out = Unset

InitPure ==
    /\ raw_headers = <<>>
    /\ returned = Unset
    /\ found_in = EmptyDict
    /\ derived = Unset
    /\ InitUrlsIdle

Init == InitHandlers /\ InitPure

Next ==
    \/ \E r \in Requests : Reject(r)
    \/ \E r \in Requests : Insert(r)
    \/ \E r \in Requests : CommitInsert(r)
    \/ \E r \in Requests : ReadLastRowId(r)
    \/ \E r \in Requests : Analyze(r)
    \/ \E r \in Requests : Update(r)
    \/ \E r \in Requests : CommitUpdate(r)
    \/ \E r \in Requests : Return(r)

Spec == Init /\ [][Next]_vars

\* the three endpoints served together, a request being a call of one of them
NextApi ==
    \/ Next
    \/ \E r \in Requests : GetExecute(r)
    \/ \E r \in Requests : GetFetch(r)
    \/ \E r \in Requests : ListExecute(r)
    \/ \E r \in Requests : ListFetch(r)

SpecApi == Init /\ [][NextApi]_vars

\* every request keeps taking steps: the worker threads are scheduled fairly
FairSpec == Spec /\ \A r \in Requests : WF_vars(create_ticket(r))

-----------------------------------------------------------------------------
(* Direct calls of the pure functions                                      *)

InitVerdict ==
    /\ InitHandlers
    /\ raw_headers \in HeaderTexts
    /\ returned = Unset
    /\ found_in = EmptyDict
    /\ derived = Unset
    /\ InitUrlsIdle

CallVerdict ==
    /\ returned = Unset
    /\ returned' = Stored(auth_verdict_from_headers(raw_headers))
    /\ UNCHANGED <<handlerVars, raw_headers, found_in, derived, urls_in, urls_out>>

SpecVerdict == InitVerdict /\ [][CallVerdict]_vars

InitDerive ==
    /\ InitHandlers
    /\ raw_headers = <<>>
    /\ returned = Unset
    /\ found_in \in FoundDicts
    /\ derived = Unset
    /\ InitUrlsIdle

CallDerive ==
    /\ derived = Unset
    /\ derived' = Stored(VerdictOf(found_in))
    /\ UNCHANGED <<handlerVars, raw_headers, returned, found_in, urls_in, urls_out>>

SpecDerive == InitDerive /\ [][CallDerive]_vars

\* the longest url list submitted
MaxUrls == 3

\* url strings: plain ones, one holding a comma, and the empty string
SampleUrls == { <<"x">>, <<"y">>, <<"x", ",", "y">>, <<>> }

UrlLists == UNION {[1..n -> SampleUrls] : n \in 0..MaxUrls}

InitUrls ==
    /\ InitHandlers
    /\ raw_headers = <<>>
    /\ returned = Unset
    /\ found_in = EmptyDict
    /\ derived = Unset
    /\ urls_in \in UrlLists
    /\ urls_out = Unset

\* the urls of one ticket stored by line 147 and read back by line 115 or 135
CallUrls ==
    /\ urls_out = Unset
    /\ urls_out' = Stored(ReadUrls(StoreUrls(urls_in)))
    /\ UNCHANGED <<handlerVars, raw_headers, returned, found_in, derived, urls_in>>

SpecUrls == InitUrls /\ [][CallUrls]_vars

-----------------------------------------------------------------------------
(* Properties of create_ticket                                             *)

TerminalStatuses == {"pass", "fail", "unknown", "analyzer_error"}

\* request r got a TicketOut back
Responded(r) == response[r] # Unset /\ DOMAIN response[r][1] = {"ticket_id", "status"}

\* the id of the row request r inserted, once it has
InsertedId(r) == writes[r][1].id

\* the keys of a stored JSON object
MemberKeys(obj) == {obj[i][1] : i \in 1..Len(obj)}

\* C1: each stored ticket's status changes exactly once, from queued to a
\* terminal value: no step changes the status or the result of a record that
\* holds a terminal status, and no record returns to queued.
C1_StatusChangesOnce ==
    [][\A i \in DOMAIN tickets :
          tickets[i].analyzer_status # "queued"
          => /\ tickets'[i].analyzer_status = tickets[i].analyzer_status
             /\ tickets'[i].analyzer_result = tickets[i].analyzer_result]_vars

\* C2: once every started submission has finished, no inserted record is left
\* at queued: each holds a committed terminal status, and the record of a
\* submission whose analyzer call failed holds analyzer_error.
C2_NoRecordLeftQueued ==
    (\A r \in Requests : pc[r] = "done")
    => /\ \A i \in DOMAIN tickets :
             /\ i \in DOMAIN committed
             /\ committed[i].analyzer_status \in TerminalStatuses
       /\ \A r \in Requests :
             ~reply[r][1].ok
             => committed[InsertedId(r)].analyzer_status = "analyzer_error"

\* C3: each record is written only by the submission that created it: the id
\* read from cur.lastrowid, the id the UPDATE targets and the ticket_id
\* returned are the id of the row the same submission inserted, and two
\* submissions never return the same ticket_id.
C3_WritesOwnRecord ==
    /\ \A r \in Requests :
          /\ pc[r] \in {"analyzer", "update", "commit_update", "return", "done"}
             => ticket_id[r] = InsertedId(r)
          /\ Len(writes[r]) = 2 => writes[r][2].id = InsertedId(r)
          /\ Responded(r) => response[r][1].ticket_id = InsertedId(r)
    /\ \A r1, r2 \in Requests :
          (r1 # r2 /\ Responded(r1) /\ Responded(r2))
          => response[r1][1].ticket_id # response[r2][1].ticket_id

\* C4: the status a submission returns is never queued; it is analyzer_error
\* if its own analyzer call failed, whatever its headers resolve to, and
\* otherwise the overall value of the verdict of its own raw headers.
C4_ReturnedStatus ==
    \A r \in Requests :
        Responded(r)
        => /\ response[r][1].status # "queued"
           /\ ~reply[r][1].ok => response[r][1].status = "analyzer_error"
           /\ reply[r][1].ok
              => response[r][1].status = SampleVerdicts[t[r].headers].overall

\* C4 witness: a submission whose headers resolve to pass got analyzer_error
C4_Witness ==
    \E r \in Requests :
        /\ Responded(r)
        /\ response[r][1].status = "analyzer_error"
        /\ SampleVerdicts[t[r].headers].overall = "pass"

\* C5: a stored result is null exactly when the status is queued; under a
\* terminal status it holds a verdict and exactly one of html and error:
\* error under analyzer_error, html under pass, fail and unknown.
C5_ResultShape ==
    \A i \in DOMAIN tickets :
        LET row == tickets[i]
        IN /\ row.analyzer_status \in TerminalStatuses \cup {"queued"}
           /\ row.analyzer_result = NULL <=> row.analyzer_status = "queued"
           /\ row.analyzer_status \in TerminalStatuses
              => LET keys == MemberKeys(row.analyzer_result[1])
                 IN /\ "verdict" \in keys
                    /\ "error" \in keys <=> row.analyzer_status = "analyzer_error"
                    /\ "html" \in keys
                       <=> row.analyzer_status \in {"pass", "fail", "unknown"}
                    /\ ~("html" \in keys /\ "error" \in keys)

\* C5 witness: both shapes are stored at once
C5_Witness ==
    \E i, j \in DOMAIN tickets :
        /\ tickets[i].analyzer_status = "analyzer_error"
        /\ tickets[j].analyzer_status = "pass"

\* C6: a completed submission has executed exactly two writes, an INSERT and
\* then an UPDATE, whatever the analyzer call ended in; the store holds one
\* record per INSERT, a record no UPDATE has reached is queued with a null
\* result, and every UPDATE targets a record that exists.
C6_TwoWrites ==
    /\ \A r \in Requests :
          LET ops == [k \in 1..Len(writes[r]) |-> writes[r][k].op]
          IN /\ pc[r] = "request" => ops = <<>>
             /\ pc[r] \in {"commit_insert", "lastrowid", "analyzer", "update"}
                => ops = <<"INSERT">>
             /\ pc[r] \in {"commit_update", "return", "done"}
                => /\ ops = <<"INSERT", "UPDATE">>
                   /\ writes[r][2].id \in DOMAIN tickets
    /\ Len(tickets) = Cardinality({r \in Requests : writes[r] # <<>>})
    /\ \A i \in DOMAIN tickets :
          (\A r \in Requests : \A k \in 1..Len(writes[r]) :
              ~(writes[r][k].op = "UPDATE" /\ writes[r][k].id = i))
          => /\ tickets[i].analyzer_status = "queued"
             /\ tickets[i].analyzer_result = NULL

\* C6 witness: two submissions completed, one analyzer call failed, one not
C6_Witness ==
    \E r1, r2 \in Requests :
        /\ pc[r1] = "done" /\ pc[r2] = "done"
        /\ reply[r1][1].ok /\ ~reply[r2][1].ok
        /\ Len(tickets) = 2

\* C7: the steps of a submission are in strict order: its INSERT is committed
\* before its analyzer call, the call's outcome is known before its UPDATE,
\* and when a response for ticket id N exists the committed record N holds a
\* terminal status.
C7_StrictOrder ==
    \A r \in Requests :
        /\ reply[r] # Unset \/ pc[r] = "analyzer"
           => /\ Len(writes[r]) >= 1
              /\ InsertedId(r) \in DOMAIN committed
        /\ Len(writes[r]) = 2 => reply[r] # Unset
        /\ Responded(r)
           => /\ Len(writes[r]) = 2
              /\ response[r][1].ticket_id \in DOMAIN committed
              /\ committed[response[r][1].ticket_id].analyzer_status
                    \in TerminalStatuses

\* C7 witness: a response is out while another submission is still running
C7_Witness ==
    \E r1, r2 \in Requests :
        /\ Responded(r1)
        /\ pc[r2] \in {"commit_insert", "lastrowid", "analyzer", "update"}

-----------------------------------------------------------------------------
(* Properties of the verdict                                               *)

\* C8: for every mapping of spf, dkim, dmarc to a result token or absent,
\* overall is unknown iff all three are absent, pass iff all three are present
\* and equal pass, and fail in every other case; the three values are reported
\* as given.
C8_OverallTable ==
    derived # Unset
    => LET v == derived[1]
           absent(k) == k \notin DOMAIN found_in
           passes(k) == k \in DOMAIN found_in /\ found_in[k] = GOOD_VALUE
           allAbsent == absent(SPF) /\ absent(DKIM) /\ absent(DMARC)
           allPass == passes(SPF) /\ passes(DKIM) /\ passes(DMARC)
       IN /\ v.overall \in {"unknown", "pass", "fail"}
          /\ v.overall = "unknown" <=> allAbsent
          /\ v.overall = "pass" <=> allPass
          /\ v.overall = "fail" <=> (~allAbsent /\ ~allPass)
          /\ v.spf = (IF absent(SPF) THEN None ELSE found_in[SPF])
          /\ v.dkim = (IF absent(DKIM) THEN None ELSE found_in[DKIM])
          /\ v.dmarc = (IF absent(DMARC) THEN None ELSE found_in[DMARC])

\* C8 witness: one or two mechanisms present, all of them pass, gives fail
C8_Witness ==
    /\ derived # Unset
    /\ DOMAIN found_in # {}
    /\ DOMAIN found_in # {SPF, DKIM, DMARC}
    /\ \A k \in DOMAIN found_in : found_in[k] = GOOD_VALUE
    /\ derived[1].overall = "fail"

\* whether the text holds mech, "=" and val, in any casing and with any white
\* space around "=", anywhere
ContainsResult(raw, mech, val) ==
    \E i \in 1..Len(raw) :
        /\ i + Len(mech) - 1 <= Len(raw)
        /\ \A k \in 1..Len(mech) : LowerChar(raw[i + k - 1]) = mech[k]
        /\ LET eq == SkipSpaces(raw, i + Len(mech))
               at == SkipSpaces(raw, eq + 1)
           IN /\ eq <= Len(raw)
              /\ raw[eq] = "="
              /\ at + Len(val) - 1 <= Len(raw)
              /\ \A k \in 1..Len(val) : LowerChar(raw[at + k - 1]) = val[k]

\* the lines that start with authentication-results in any casing
AuthLinesOf(raw) ==
    SelectSeq(splitlines(raw), LAMBDA l : startswith(lower(l), AUTH_RESULTS))

RECURSIVE MatchesOf(_)
MatchesOf(ls) ==
    IF ls = <<>> THEN <<>> ELSE finditer(Head(ls)) \o MatchesOf(Tail(ls))

\* the lower-cased value of the first match for mech, in document order, on
\* the authentication-results lines; None without a match
FirstOf(ms, mech) ==
    LET at == {i \in 1..Len(ms) : lower(ms[i].g1) = mech}
    IN IF at = {} THEN None ELSE lower(ms[Least(at)].g2)

FirstResult(raw, mech) == FirstOf(MatchesOf(AuthLinesOf(raw)), mech)

\* C9 as stated: every header text that contains spf=pass, dkim=pass and
\* dmarc=pass, in any order, casing and spacing, gets overall = pass.
C9_ContainsAllPass ==
    (/\ returned # Unset
     /\ ContainsResult(raw_headers, SPF, GOOD_VALUE)
     /\ ContainsResult(raw_headers, DKIM, GOOD_VALUE)
     /\ ContainsResult(raw_headers, DMARC, GOOD_VALUE))
    => returned[1].overall = "pass"

\* C9 amended: every header text in which the first result of each of spf,
\* dkim and dmarc on the authentication-results lines is pass, in any order,
\* casing and spacing, gets overall = pass.
C9_FirstResultsAllPass ==
    LET ms == MatchesOf(AuthLinesOf(raw_headers))
    IN (/\ returned # Unset
        /\ FirstOf(ms, SPF) = GOOD_VALUE
        /\ FirstOf(ms, DKIM) = GOOD_VALUE
        /\ FirstOf(ms, DMARC) = GOOD_VALUE)
       => returned[1].overall = "pass"

\* C9 witness: an upper-case text with white space around "=" resolved to pass
C9_Witness ==
    /\ returned # Unset
    /\ returned[1].overall = "pass"
    /\ FirstResult(raw_headers, DMARC) = GOOD_VALUE
    /\ \E i \in 1..Len(raw_headers) : raw_headers[i] = "\t"

\* C10 as stated: every header text that contains a mechanism with a value
\* other than pass gets overall = fail.
C10_ContainsNonPass ==
    (/\ returned # Unset
     /\ \E n \in 1..3 : ContainsResult(raw_headers, Mechanisms[n], FAIL_VALUE))
    => returned[1].overall = "fail"

\* C10 amended: every header text in which the first result of some mechanism
\* on the authentication-results lines is not pass gets overall = fail, even
\* if other mechanisms are pass.
C10_FirstResultNonPass ==
    LET ms == MatchesOf(AuthLinesOf(raw_headers))
    IN (/\ returned # Unset
        /\ \E n \in 1..3 : FirstOf(ms, Mechanisms[n]) \notin {None, GOOD_VALUE})
       => returned[1].overall = "fail"

\* C10 witness: a failing mechanism beside two passing ones resolved to fail
C10_Witness ==
    /\ returned # Unset
    /\ returned[1].overall = "fail"
    /\ FirstResult(raw_headers, SPF) = GOOD_VALUE
    /\ FirstResult(raw_headers, DKIM) = FAIL_VALUE
    /\ FirstResult(raw_headers, DMARC) = GOOD_VALUE

\* overall as the first results among the matches ms decide it
OverallOfFirst(ms) ==
    LET firsts == {FirstOf(ms, Mechanisms[n]) : n \in 1..3}
    IN IF firsts = {None} THEN "unknown"
       ELSE IF firsts = {GOOD_VALUE} THEN "pass" ELSE "fail"

\* C11: first-seen-wins: the value reported for each mechanism, and used for
\* overall, is the lower-cased value of its first match in document order on
\* the selected lines; later matches for the mechanism change nothing.
C11_FirstSeenWins ==
    LET ms == MatchesOf(AuthLinesOf(raw_headers))
    IN returned # Unset
       => /\ returned[1].spf = FirstOf(ms, SPF)
          /\ returned[1].dkim = FirstOf(ms, DKIM)
          /\ returned[1].dmarc = FirstOf(ms, DMARC)
          /\ returned[1].overall = OverallOfFirst(ms)

\* C11 witness: two selected lines, each with one spf result, pass before
\* fail, and pass reported
C11_Witness ==
    /\ returned # Unset
    /\ Len(AuthLinesOf(raw_headers)) = 2
    /\ LET ms == MatchesOf(AuthLinesOf(raw_headers))
       IN /\ Len(ms) = 2
          /\ lower(ms[1].g1) = SPF /\ lower(ms[2].g1) = SPF
          /\ lower(ms[1].g2) = GOOD_VALUE /\ lower(ms[2].g2) = FAIL_VALUE
          /\ Len(finditer(AuthLinesOf(raw_headers)[1])) = 1
    /\ returned[1].spf = GOOD_VALUE

\* C12: a header text, the empty one included, in which no line starts with
\* authentication-results in any casing gives spf, dkim and dmarc absent and
\* overall = unknown, whatever tokens its lines hold; every header text gives
\* an overall value among pass, fail and unknown.
C12_NoAuthLineUnknown ==
    returned # Unset
    => /\ returned[1].overall \in {"pass", "fail", "unknown"}
       /\ AuthLinesOf(raw_headers) = <<>>
          => returned[1] = [spf |-> None, dkim |-> None, dmarc |-> None,
                            overall |-> "unknown"]

\* C12 witness: a text with a result token but no authentication-results line
C12_Witness ==
    /\ returned # Unset
    /\ AuthLinesOf(raw_headers) = <<>>
    /\ ContainsResult(raw_headers, SPF, FAIL_VALUE)
    /\ returned[1].overall = "unknown"

\* C16: url round trip: for every submitted list of url strings, urls holding
\* a comma, the empty string and the empty list included, the list read back
\* from the stored column equals the submitted one, in length and in order.
C16_UrlRoundTrip ==
    urls_out # Unset => urls_out[1] = urls_in

\* the bodies of SampleBodies that TicketIn must refuse
Malformed(raw) == raw \in {BadReporterBody, NoHeadersBody}

\* C14: a submission with a malformed body (a reporter that is no e-mail
\* address, a missing headers member) is answered 422 before any processing:
\* it inserts no record, makes no analyzer call, and the step that takes it
\* up leaves the table, the committed table and the cursor as they were.
C14_MalformedRejected ==
    /\ [](\A r \in Requests :
            (received[r] # Unset /\ Malformed(received[r][1]))
            => /\ response[r] = Stored([status_code |-> 422])
               /\ writes[r] = <<>>
               /\ reply[r] = Unset
               /\ t[r] = NoTicket)
    /\ [][\A r \in Requests :
            (received[r] = Unset /\ received'[r] # Unset /\ Malformed(received'[r][1]))
            => UNCHANGED <<tickets, committed, lastrowid, cur_rows, now>>]_vars

\* C14 witness: a body without headers was refused after another
\* submission had stored its record, and the table holds that one record
C14_Witness ==
    /\ NumRequests >= 2
    /\ received[1] # Unset /\ ~Malformed(received[1][1])
    /\ received[2] = Stored(NoHeadersBody)
    /\ response[2] = Stored([status_code |-> 422])
    /\ Len(tickets) = 1
    /\ pc[1] = "done"

\* the value stored under k in a dict, Unset if k is not a key
DictGet(d, k) ==
    IF k \in DictKeys(d)
    THEN Stored(d[CHOOSE i \in 1..Len(d) : d[i][1] = k][2])
    ELSE Unset

\* request r has its merged result in hand
Analyzed(r) == pc[r] \in {"update", "commit_update", "return", "done"} /\ analysis[r] # Unset

\* C17: every stored record with a terminal status holds, in its result, the
\* verdict computed from its own stored raw headers, and its status is that
\* verdict's overall or analyzer_error.
C17_OwnHeadersVerdict ==
    \A i \in DOMAIN tickets :
        tickets[i].analyzer_status \in TerminalStatuses
        => LET own == SampleVerdicts[tickets[i].headers]
           IN /\ tickets[i].analyzer_result # NULL
              /\ DictGet(tickets[i].analyzer_result[1], "verdict") = Stored(JsonVerdict(own))
              /\ tickets[i].analyzer_status \in {own.overall, "analyzer_error"}

\* C18: two submissions with identical raw headers have identical verdict
\* objects attached to their results, whether each one's analyzer call
\* succeeded or failed and whatever their other members and the analyzer's
\* response are.
C18_VerdictOfHeadersAlone ==
    \A r1, r2 \in Requests :
        (Analyzed(r1) /\ Analyzed(r2) /\ t[r1].headers = t[r2].headers)
        => /\ DictGet(analysis[r1][1], "verdict") = DictGet(analysis[r2][1], "verdict")
           /\ DictGet(analysis[r1][1], "verdict") = Stored(SampleVerdicts[t[r1].headers])

\* C18 witness: the same headers under two reporters, titles, bodies and url
\* lists, one analyzer call answered and one failed
C18_Witness ==
    \E r1, r2 \in Requests :
        /\ Analyzed(r1) /\ Analyzed(r2)
        /\ t[r1].headers = t[r2].headers
        /\ t[r1].reporter # t[r2].reporter /\ t[r1].title # t[r2].title
        /\ t[r1].body # t[r2].body /\ t[r1].urls # t[r2].urls
        /\ reply[r1][1].ok /\ ~reply[r2][1].ok
        /\ DictGet(analysis[r2][1], "verdict") # Unset

\* a Get by id response that carries a record
FoundRecord(resp) == "id" \in DOMAIN resp

\* C13: Get by id answers with the full record whose id is the requested one
\* when the table held it at the time of the query, and with 404 iff the
\* table held no record of that id, also while other calls use the shared
\* cursor between the query and the fetch.
C13_GetByIdCorrect ==
    \A r \in Requests :
        pc[r] = "got"
        => LET id == ticket_id[r]
               resp == response[r][1]
           IN /\ id \in DOMAIN snapshot[r]
                 => /\ FoundRecord(resp)
                    /\ resp.id = id
                    /\ resp.headers = snapshot[r][id].headers
                    /\ resp.reporter = snapshot[r][id].reporter
              /\ id \notin DOMAIN snapshot[r] => resp = NotFound

\* C15: List answers with exactly one entry for every record the table held
\* at the time of the query, in strictly decreasing id order and with
\* non-increasing timestamps, also under concurrent calls.
C15_ListNewestFirst ==
    \A r \in Requests :
        pc[r] = "listed"
        => LET entries == response[r][1].entries
               n == Len(snapshot[r])
           IN /\ Len(entries) = n
              /\ \A i \in 1..Len(entries) : entries[i].id = n + 1 - i
              /\ \A i, j \in 1..Len(entries) : i < j => entries[i].ts >= entries[j].ts

====
